---- MODULE Spec2Model ----
(***************************************************************************)
(* The rename-planning engine of f2: Run / SortMatches / Replace /         *)
(* DetectConflicts / Apply / Undo of the Operation type, over an explicit  *)
(* filesystem, and the expansion of the exif variables.                    *)
(*                                                                         *)
(* A path is a sequence of names relative to the working directory; the    *)
(* empty sequence is ".".  A Change holds BaseDir (a path), Source and     *)
(* Target (paths relative to BaseDir) and IsDir.                           *)
(***************************************************************************)
EXTENDS Integers, Sequences, FiniteSets, TLC

VARIABLES
    fs,             \* the filesystem: existing path -> [dir, id]
    log,            \* the map file at op.outputFile: [written, ops]
    paths,          \* op.paths
    matches,        \* op.matches
    conflicts,      \* op.conflicts
    exec,           \* op.exec
    fixConflicts,   \* op.fixConflicts
    includeDir,     \* op.includeDir
    outputFile,     \* op.outputFile # ""
    undoFile,       \* op.undoFile # ""
    m,              \* DetectConflicts' map: full target -> <<[source, index]>>
    visited,        \* keys of m the second loop of DetectConflicts has handled
    i,              \* index of the match the loop of Apply is at
    pc,             \* position in the code
    ret,            \* what the entered method returned
    fs0,            \* history: the filesystem when the forward run began
    fsA,            \* history: the filesystem when Apply was entered
    logA,           \* history: the map file when Apply was entered
    matches0,       \* history: op.matches when DetectConflicts was entered
    matches1,       \* history: op.matches after loop 1 of DetectConflicts
    renamed,        \* history: the renames the running Apply has performed
    startNumber,    \* op.startNumber
    replaceString,  \* op.replaceString, a sequence of characters
    exifData,       \* the Exif record decoded from the source file
    out,            \* what replaceExifVariables returned: [out, err]
    pass            \* the calls of DetectConflicts made on its own so far

\* the variables of template expansion and numbering
tplVars == <<startNumber, replaceString, exifData, out>>

vars == <<fs, log, paths, matches, conflicts, exec, fixConflicts, includeDir,
          outputFile, undoFile, m, visited, i, pc, ret, fs0, fsA, logA,
          matches0, matches1, renamed, startNumber, replaceString, exifData,
          out, pass>>

----------------------------------------------------------------------------
(* Bounds *)

\* most matches of a batch in the Run/Apply/Undo specification
MaxMatches == 3
\* most matches of a batch handed to DetectConflicts alone
MaxBatch == 4
\* highest numeric suffix getNewPath tries
MaxSuffix == 9

----------------------------------------------------------------------------
(* Paths *)

Dot == << >>

\* filepath.Join of a base directory and a path relative to it
Join(base, rel) == base \o rel

\* filepath.Dir
Dir(p) == IF p = Dot THEN Dot ELSE SubSeq(p, 1, Len(p) - 1)

IsPrefix(p, q) == Len(p) <= Len(q) /\ SubSeq(q, 1, Len(p)) = p

\* the path q as seen from the directory base, a prefix of q
RelTo(q, base) == SubSeq(q, Len(base) + 1, Len(q))

----------------------------------------------------------------------------
(* The filesystem *)

File(n) == [dir |-> FALSE, id |-> n]
Folder(n) == [dir |-> TRUE, id |-> n]

\* os.Stat: "ok", or the error: ENOTDIR when a component of the path is a
\* file, else ENOENT
Stat(f, p) ==
    IF p \in DOMAIN f THEN "ok"
    ELSE IF \E k \in 1..(Len(p) - 1) :
                SubSeq(p, 1, k) \in DOMAIN f /\ ~f[SubSeq(p, 1, k)].dir
         THEN "ENOTDIR"
         ELSE "ENOENT"

\* the test of DetectConflicts: err == nil || !errors.Is(err, os.ErrNotExist)
StatFinds(f, p) == Stat(f, p) # "ENOENT"

\* os.MkdirAll(dir): every missing component is created; fails on a file
MkdirAll(f, d) ==
    LET pre == {SubSeq(d, 1, k) : k \in 1..Len(d)}
    IN  IF \E p \in pre : p \in DOMAIN f /\ ~f[p].dir
        THEN [ok |-> FALSE, fs |-> f]
        ELSE [ok |-> TRUE,
              fs |-> [p \in DOMAIN f \cup pre |->
                        IF p \in DOMAIN f THEN f[p] ELSE Folder(0)]]

\* os.Rename(src, dst): moves src and all below it; a file replaces a file;
\* fails when src is missing, when dst is a directory, when a directory would
\* replace a file or move below itself, and when the directory of dst is missing
Rename(f, src, dst) ==
    IF \/ src \notin DOMAIN f
       \/ src = Dot
       \/ dst = Dot
       \/ (dst \in DOMAIN f /\ f[dst].dir)
       \/ (dst \in DOMAIN f /\ f[src].dir)
       \/ Dir(dst) \notin DOMAIN f
       \/ ~f[Dir(dst)].dir
       \/ (f[src].dir /\ IsPrefix(src, dst))
    THEN [ok |-> FALSE, fs |-> f]
    ELSE IF src = dst THEN [ok |-> TRUE, fs |-> f]
    ELSE LET under == {p \in DOMAIN f : IsPrefix(src, p)}
             moved == {Join(dst, RelTo(p, src)) : p \in under}
             kept == (DOMAIN f \ under) \ {dst}
         IN  [ok |-> TRUE,
              fs |-> [p \in kept \cup moved |->
                        IF p \in moved
                        THEN f[Join(src, RelTo(p, dst))]
                        ELSE f[p]]]

----------------------------------------------------------------------------
(* Changes and conflicts *)

Change(b, s, t, d) == [BaseDir |-> b, Source |-> s, Target |-> t, IsDir |-> d]

Conflict(s, t) == [source |-> s, target |-> t]

NoConflicts == [emptyFilename |-> << >>, fileExists |-> << >>,
                overwritingNewPath |-> << >>]

\* len(op.conflicts): the kinds that have an entry in the map
NumKinds(c) ==
    (IF c.emptyFilename # << >> THEN 1 ELSE 0)
    + (IF c.fileExists # << >> THEN 1 ELSE 0)
    + (IF c.overwritingNewPath # << >> THEN 1 ELSE 0)

NoLog == [written |-> FALSE, ops |-> << >>]

----------------------------------------------------------------------------
(* getNewPath: the target with a numeric suffix appended to its last name,  *)
(* the suffix counted up until the full path is neither on the filesystem   *)
(* nor a key of the map of targets.  The names of the model carry no        *)
(* extension, so the suffix ends the name.                                  *)

WithSuffix(rel, n) ==
    [rel EXCEPT ![Len(rel)] = @ \o " (" \o ToString(n) \o ")"]

RECURSIVE getNewPathFrom(_, _, _, _, _)
getNewPathFrom(rel, baseDir, keys, f, n) ==
    LET full == Join(baseDir, WithSuffix(rel, n))
    IN  IF n >= MaxSuffix \/ (full \notin DOMAIN f /\ full \notin keys)
        THEN WithSuffix(rel, n)
        ELSE getNewPathFrom(rel, baseDir, keys, f, n + 1)

getNewPath(target, baseDir, mm) ==
    getNewPathFrom(RelTo(target, baseDir), baseDir, DOMAIN mm, fs, 2)

----------------------------------------------------------------------------
(* DetectConflicts *)

EmptyMap == [k \in {} |-> << >>]

Entry(s, k) == [source |-> s, index |-> k]

\* m[target] = append(m[target], {source, index})
Record(mm, target, e) ==
    IF target \in DOMAIN mm
    THEN [mm EXCEPT ![target] = Append(@, e)]
    ELSE mm @@ (target :> <<e>>)

\* mutant: no continue after the empty-filename report, so the match goes
\* on to the existence test and into the map
Loop1Body_NoContinue(st, k) ==
    LET ch == st.matches[k]
        source == Join(ch.BaseDir, ch.Source)
        target == Join(ch.BaseDir, ch.Target)
        c1 == IF ch.Target = Dot
              THEN [st.conflicts EXCEPT
                      !.emptyFilename =
                          Append(@, Conflict(<<source>>, target))]
              ELSE st.conflicts
        ms1 == IF ch.Target = Dot /\ fixConflicts
               THEN [st.matches EXCEPT ![k].Target = ch.Source]
               ELSE st.matches
        found == StatFinds(fs, target)
    IN  [matches |-> ms1,
         conflicts |->
            IF found
            THEN [c1 EXCEPT
                    !.fileExists = Append(@, Conflict(<<source>>, target))]
            ELSE c1,
         m |-> Record(st.m, target, Entry(source, k))]

\* mutant: the first loop reports an existing target and leaves it as it is
Loop1Body_NoFix(st, k) ==
    LET ch == st.matches[k]
        source == Join(ch.BaseDir, ch.Source)
        target == Join(ch.BaseDir, ch.Target)
    IN  IF ch.Target = Dot
        THEN [st EXCEPT
                !.conflicts.emptyFilename =
                    Append(@, Conflict(<<source>>, target)),
                !.matches[k].Target =
                    IF fixConflicts THEN ch.Source ELSE @]
        ELSE [matches |-> st.matches,
              conflicts |->
                IF StatFinds(fs, target)
                THEN [st.conflicts EXCEPT
                        !.fileExists =
                            Append(@, Conflict(<<source>>, target))]
                ELSE st.conflicts,
              m |-> Record(st.m, target, Entry(source, k))]

\* the body of the first loop for the match at index k;
\* st holds op.matches, op.conflicts and the map m
Loop1Body(st, k) ==
    LET ch == st.matches[k]
        source == Join(ch.BaseDir, ch.Source)
        target == Join(ch.BaseDir, ch.Target)
    IN  IF ch.Target = Dot
        THEN [st EXCEPT
                !.conflicts.emptyFilename =
                    Append(@, Conflict(<<source>>, target)),
                !.matches[k].Target =
                    IF fixConflicts THEN ch.Source ELSE @]
        ELSE LET found == StatFinds(fs, target)
                 str == getNewPath(target, ch.BaseDir, EmptyMap)
                 fixed == found /\ fixConflicts
                 target2 == IF fixed THEN Join(ch.BaseDir, str) ELSE target
             IN  [matches |->
                    IF fixed THEN [st.matches EXCEPT ![k].Target = str]
                    ELSE st.matches,
                  conflicts |->
                    IF found
                    THEN [st.conflicts EXCEPT
                            !.fileExists =
                                Append(@, Conflict(<<source>>, target))]
                    ELSE st.conflicts,
                  m |-> Record(st.m, target2, Entry(source, k))]

RECURSIVE Loop1(_, _)
Loop1(st, k) ==
    IF k > Len(st.matches) THEN st ELSE Loop1(Loop1Body(st, k), k + 1)

\* mutant: the first source of the group is left out
Sources_SkipsFirst(v) == [k \in 1..(Len(v) - 1) |-> v[k + 1].source]

\* the sources of a group of the map, in the order they were recorded
Sources(v) == [k \in 1..Len(v) |-> v[k].source]

\* mutant: the new path is not added to the map
RECURSIVE FixGroup_NoGrow(_, _, _, _)
FixGroup_NoGrow(st, k, v, j) ==
    IF j > Len(v) THEN st
    ELSE LET item == v[j]
             base == st.matches[item.index].BaseDir
             str == getNewPath(k, base, st.m)
         IN  FixGroup_NoGrow(
                [matches |-> [st.matches EXCEPT ![item.index].Target = str],
                 m |-> st.m],
                k, v, j + 1)

\* the auto-fix of the second loop for the items of the group of key k from
\* position j on (position 1, the first item, is skipped);
\* st holds op.matches and the map m
RECURSIVE FixGroup(_, _, _, _)
FixGroup(st, k, v, j) ==
    IF j > Len(v) THEN st
    ELSE LET item == v[j]
             base == st.matches[item.index].BaseDir
             str == getNewPath(k, base, st.m)
             pt == Join(base, str)
         IN  FixGroup(
                [matches |-> [st.matches EXCEPT ![item.index].Target = str],
                 m |-> IF pt \in DOMAIN st.m THEN st.m
                       ELSE st.m @@ (pt :> << >>)],
                k, v, j + 1)

\* mutant: len(v) > 0 for len(v) > 1
Groups_AtLeastOne(mm, seen) == {k \in DOMAIN mm \ seen : Len(mm[k]) > 0}

\* the keys the second loop still has to act on: groups of two or more
Groups(mm, seen) == {k \in DOMAIN mm \ seen : Len(mm[k]) > 1}

\* the first loop of DetectConflicts, run whole; then the second loop is
\* entered when a group of two or more targets is there for it
DetectLoop1 ==
    LET st == Loop1([matches |-> matches, conflicts |-> NoConflicts,
                     m |-> EmptyMap], 1)
    IN  /\ matches' = st.matches
        /\ conflicts' = st.conflicts
        /\ m' = st.m
        /\ visited' = {}
        /\ matches0' = matches
        /\ matches1' = st.matches
        /\ pc' = IF Groups(st.m, {}) = {} THEN "detected" ELSE "groups"

\* one round of the second loop: a key of the map with two or more entries,
\* taken in the order Go's map iteration happens to give
DetectGroup ==
    /\ pc = "groups"
    /\ \E k \in Groups(m, visited) :
        LET st == IF fixConflicts
                  THEN FixGroup([matches |-> matches, m |-> m], k, m[k], 2)
                  ELSE [matches |-> matches, m |-> m]
        IN  /\ conflicts' = [conflicts EXCEPT
                                !.overwritingNewPath =
                                    Append(@, Conflict(Sources(m[k]), k))]
            /\ matches' = st.matches
            /\ m' = st.m
            /\ visited' = visited \cup {k}
            /\ pc' = IF Groups(st.m, visited \cup {k}) = {}
                     THEN "detected" ELSE "groups"
    /\ UNCHANGED tplVars
    /\ UNCHANGED pass
    /\ UNCHANGED <<fs, log, paths, exec, fixConflicts, includeDir, outputFile,
                   undoFile, i, ret, fs0, fsA, logA, matches0, matches1, renamed>>

\* DetectConflicts called on its own
DetectEnter ==
    /\ pc = "detect"
    /\ DetectLoop1
    /\ pass' = pass + 1
    /\ UNCHANGED tplVars
    /\ UNCHANGED <<fs, log, paths, exec, fixConflicts, includeDir, outputFile,
                   undoFile, i, ret, fs0, fsA, logA, renamed>>

\* DetectConflicts called once more, on the matches the call before left and
\* against the same filesystem: op.conflicts and m are made anew
DetectAgain ==
    /\ pc = "detected"
    /\ pass = 1
    /\ DetectLoop1
    /\ pass' = pass + 1
    /\ UNCHANGED tplVars
    /\ UNCHANGED <<fs, log, paths, exec, fixConflicts, includeDir, outputFile,
                   undoFile, i, ret, fs0, fsA, logA, renamed>>

----------------------------------------------------------------------------
(* Apply *)

\* Apply up to the end of the first loop of DetectConflicts
ApplyEnter ==
    /\ pc = "apply"
    /\ IF Len(matches) = 0
       THEN /\ ret' = "nil"
            /\ pc' = "returned"
            /\ UNCHANGED <<matches, conflicts, m, visited, matches0, matches1>>
       ELSE /\ DetectLoop1
            /\ UNCHANGED ret
    /\ fsA' = fs
    /\ logA' = log
    /\ UNCHANGED tplVars
    /\ UNCHANGED pass
    /\ UNCHANGED <<fs, log, paths, exec, fixConflicts, includeDir, outputFile,
                   undoFile, i, fs0, renamed>>

\* mutant: Apply enters its loop whatever DetectConflicts found
ApplyDecide_NoRefusal ==
    /\ pc = "detected"
    /\ i' = IF exec THEN 1 ELSE Len(matches) + 1
    /\ pc' = "loop"
    /\ UNCHANGED tplVars
    /\ UNCHANGED pass
    /\ UNCHANGED <<fs, log, paths, matches, conflicts, exec, fixConflicts,
                   includeDir, outputFile, undoFile, m, visited, ret, fs0,
                   fsA, logA, matches0, matches1, renamed>>

\* mutant: the loop renames whether or not op.exec
ApplyDecide_DryRunRenames ==
    /\ pc = "detected"
    /\ IF NumKinds(conflicts) > 0 /\ ~fixConflicts
       THEN /\ ret' = "conflict"
            /\ pc' = "returned"
            /\ UNCHANGED i
       ELSE /\ i' = 1
            /\ pc' = "loop"
            /\ UNCHANGED ret
    /\ UNCHANGED tplVars
    /\ UNCHANGED pass
    /\ UNCHANGED <<fs, log, paths, matches, conflicts, exec, fixConflicts,
                   includeDir, outputFile, undoFile, m, visited, fs0, fsA,
                   logA, matches0, matches1, renamed>>

\* the test after DetectConflicts: refuse, or enter the loop over the matches
\* (which does nothing for a match unless op.exec)
ApplyDecide ==
    /\ pc = "detected"
    /\ IF NumKinds(conflicts) > 0 /\ ~fixConflicts
       THEN /\ ret' = "conflict"
            /\ pc' = "returned"
            /\ UNCHANGED i
       ELSE /\ i' = IF exec THEN 1 ELSE Len(matches) + 1
            /\ pc' = "loop"
            /\ UNCHANGED ret
    /\ UNCHANGED tplVars
    /\ UNCHANGED pass
    /\ UNCHANGED <<fs, log, paths, matches, conflicts, exec, fixConflicts,
                   includeDir, outputFile, undoFile, m, visited, fs0, fsA, logA,
                   matches0, matches1, renamed>>

\* mutant: a failed rename is skipped and the loop goes on
ApplyRename_GoesOn ==
    /\ pc = "loop"
    /\ i <= Len(matches)
    /\ LET ch == matches[i]
           source == Join(ch.BaseDir, ch.Source)
           target == Join(ch.BaseDir, ch.Target)
           mk == IF Len(ch.Target) > 1
                 THEN MkdirAll(fs, Dir(ch.Target))
                 ELSE [ok |-> TRUE, fs |-> fs]
           rn == Rename(mk.fs, source, target)
       IN  /\ fs' = IF mk.ok /\ rn.ok THEN rn.fs ELSE mk.fs
           /\ renamed' = IF mk.ok /\ rn.ok
                         THEN Append(renamed,
                                     [source |-> source, target |-> target])
                         ELSE renamed
           /\ i' = i + 1
    /\ UNCHANGED tplVars
    /\ UNCHANGED pass
    /\ UNCHANGED <<log, paths, matches, conflicts, exec, fixConflicts,
                   includeDir, outputFile, undoFile, m, visited, pc, ret, fs0,
                   fsA, logA, matches0, matches1>>

\* one round of the loop in execute mode: the directories of a target with a
\* separator are made with os.MkdirAll(filepath.Dir(ch.Target)), a path
\* relative to the working directory; then os.Rename(source, target)
ApplyRename ==
    /\ pc = "loop"
    /\ i <= Len(matches)
    /\ LET ch == matches[i]
           source == Join(ch.BaseDir, ch.Source)
           target == Join(ch.BaseDir, ch.Target)
           mk == IF Len(ch.Target) > 1
                 THEN MkdirAll(fs, Dir(ch.Target))
                 ELSE [ok |-> TRUE, fs |-> fs]
           rn == Rename(mk.fs, source, target)
       IN  IF mk.ok /\ rn.ok
           THEN /\ fs' = rn.fs
                /\ renamed' = Append(renamed,
                                     [source |-> source, target |-> target])
                /\ i' = i + 1
                /\ UNCHANGED <<pc, ret>>
           ELSE /\ fs' = mk.fs
                /\ ret' = "execErr"
                /\ pc' = "returned"
                /\ UNCHANGED <<i, renamed>>
    /\ UNCHANGED tplVars
    /\ UNCHANGED pass
    /\ UNCHANGED <<log, paths, matches, conflicts, exec, fixConflicts,
                   includeDir, outputFile, undoFile, m, visited, fs0, fsA, logA,
                   matches0, matches1>>

\* mutant: the map file is written in a dry run too
ApplyFinish_DryRunLogs ==
    /\ pc = "loop"
    /\ i > Len(matches)
    /\ log' = IF Len(matches) > 0 /\ outputFile
              THEN [written |-> TRUE, ops |-> matches]
              ELSE log
    /\ ret' = "nil"
    /\ pc' = "returned"
    /\ UNCHANGED tplVars
    /\ UNCHANGED pass
    /\ UNCHANGED <<fs, paths, matches, conflicts, exec, fixConflicts,
                   includeDir, outputFile, undoFile, m, visited, i, fs0, fsA,
                   logA, matches0, matches1, renamed>>

\* after the loop: WriteToFile in execute mode with an output file,
\* PrintChanges in a dry run
ApplyFinish ==
    /\ pc = "loop"
    /\ i > Len(matches)
    /\ log' = IF exec /\ Len(matches) > 0 /\ outputFile
              THEN [written |-> TRUE, ops |-> matches]
              ELSE log
    /\ ret' = "nil"
    /\ pc' = "returned"
    /\ UNCHANGED tplVars
    /\ UNCHANGED pass
    /\ UNCHANGED <<fs, paths, matches, conflicts, exec, fixConflicts,
                   includeDir, outputFile, undoFile, m, visited, i, fs0, fsA,
                   logA, matches0, matches1, renamed>>

----------------------------------------------------------------------------
(* String order of base directories *)

\* the character codes of the names that occur in a base directory
NameCodes == [n \in {"+", "a", "b", "c", "d", "f", "g"} |->
                CASE n = "+" -> <<43>>
                  [] n = "a" -> <<97>>
                  [] n = "b" -> <<98>>
                  [] n = "c" -> <<99>>
                  [] n = "d" -> <<100>>
                  [] n = "f" -> <<102>>
                  [] n = "g" -> <<103>>]

\* the string of a path: "." for the working directory, else the names
\* joined by "/" (code 47)
RECURSIVE PathStr(_)
PathStr(p) ==
    IF p = Dot THEN <<46>>
    ELSE IF Len(p) = 1 THEN NameCodes[p[1]]
    ELSE NameCodes[p[1]] \o <<47>> \o PathStr(Tail(p))

\* Go's s < t on strings: bytewise lexicographic
StrLess(s, t) ==
    \E k \in 1..Len(t) :
        /\ k - 1 <= Len(s)
        /\ \A j \in 1..(k - 1) : s[j] = t[j]
        /\ (k = Len(s) + 1 \/ s[k] < t[k])

----------------------------------------------------------------------------
(* sort.SliceStable: for fewer than 20 elements an insertion sort that      *)
(* calls less(j, j-1) on the slice as it stands                             *)

Swap(ms, a, b) == [ms EXCEPT ![a] = ms[b], ![b] = ms[a]]

\* the less function of SortMatches
LessSort(ms, a, b) ==
    IF ~ms[a].IsDir THEN TRUE
    ELSE StrLess(PathStr(ms[b].BaseDir), PathStr(ms[a].BaseDir))

\* the less function of Undo
LessUndo(ms, a, b) ==
    StrLess(PathStr(ms[a].BaseDir), PathStr(ms[b].BaseDir))

Less(mode, ms, a, b) ==
    IF mode = "sort" THEN LessSort(ms, a, b) ELSE LessUndo(ms, a, b)

RECURSIVE Insert(_, _, _)
Insert(mode, ms, j) ==
    IF j > 1 /\ Less(mode, ms, j, j - 1)
    THEN Insert(mode, Swap(ms, j, j - 1), j - 1)
    ELSE ms

RECURSIVE InsertionSort(_, _, _)
InsertionSort(mode, ms, k) ==
    IF k > Len(ms) THEN ms
    ELSE InsertionSort(mode, Insert(mode, ms, k), k + 1)

SortMatches(ms) == InsertionSort("sort", ms, 2)

\* Undo's list: source and target of every logged change swapped, then
\* sorted by base directory
Swapped(ops) ==
    [k \in 1..Len(ops) |->
        [ops[k] EXCEPT !.Source = ops[k].Target, !.Target = ops[k].Source]]

UndoList(ops) == InsertionSort("undo", Swapped(ops), 2)

----------------------------------------------------------------------------
(* The entries a run may find.  A world is a sequence of entries, each a    *)
(* directory, a name and a kind; the entries of one directory stand in name *)
(* order, the order os.ReadDir lists them in.                               *)

Ent(d, n, isDir) == [in |-> d, name |-> n, dir |-> isDir]

\* the Run/Apply/Undo specification: files a and b, directory d, file d/a
World == << Ent(Dot, "a", FALSE), Ent(Dot, "b", FALSE),
            Ent(Dot, "d", TRUE), Ent(<<"d">>, "a", FALSE) >>

\* DetectConflicts alone: five files in the working directory
WorldDetect == << Ent(Dot, "a", FALSE), Ent(Dot, "b", FALSE),
                  Ent(Dot, "c", FALSE), Ent(Dot, "d", FALSE),
                  Ent(Dot, "e", FALSE) >>

\* SortMatches alone: a, a/b, the file a/b/f, the file g, and the directory
\* "+" with its subdirectory c
WorldSort == << Ent(Dot, "+", TRUE), Ent(Dot, "a", TRUE),
                Ent(Dot, "g", FALSE), Ent(<<"a">>, "b", TRUE),
                Ent(<<"a", "b">>, "f", FALSE), Ent(<<"+">>, "c", TRUE) >>

PathOf(e) == Join(e.in, <<e.name>>)

\* the sets of entries of a world that can exist together
Present(w) ==
    {S \in SUBSET (1..Len(w)) :
        \A k \in S : w[k].in = Dot
                     \/ \E j \in S : w[j].dir /\ PathOf(w[j]) = w[k].in}

\* the filesystem that holds the entries S of the world w, and maybe more
\* files of the working directory
FsOf(w, S, extra) ==
    [p \in {Dot} \cup {PathOf(w[k]) : k \in S} \cup {<<n>> : n \in extra} |->
        IF p = Dot THEN Folder(0)
        ELSE IF \E k \in S : PathOf(w[k]) = p
        THEN LET k == CHOOSE k \in S : PathOf(w[k]) = p
             IN  IF w[k].dir THEN Folder(k) ELSE File(k)
        ELSE File(Len(w) + 1)]

\* the subsequence of seq at the indices in sel
RECURSIVE Pick(_, _, _)
Pick(seq, sel, k) ==
    IF k > Len(seq) THEN << >>
    ELSE (IF k \in sel THEN <<seq[k]>> ELSE << >>) \o Pick(seq, sel, k + 1)

\* setPaths over os.ReadDir of the directory d
Listing(w, f, d) ==
    LET here == {k \in 1..Len(w) : w[k].in = d /\ PathOf(w[k]) \in DOMAIN f}
        es == Pick(w, here, 1)
    IN  [k \in 1..Len(es) |-> Change(d, <<es[k].name>>, Dot, es[k].dir)]

RECURSIVE Concat(_)
Concat(ss) == IF ss = << >> THEN << >> ELSE Head(ss) \o Concat(Tail(ss))

\* the orders in which a set of directories can be ranged over
Orders(D) ==
    {o \in [1..Cardinality(D) -> D] : \A d \in D : \E k \in DOMAIN o : o[k] = d}

\* op.paths: the listings of the directories of the filesystem, the
\* directories taken in any order (setPaths ranges over a map)
PathLists(w, f) ==
    LET dirs == {p \in DOMAIN f : f[p].dir /\ Listing(w, f, p) # << >>}
    IN  {Concat([k \in DOMAIN o |-> Listing(w, f, o[k])]) : o \in Orders(dirs)}

----------------------------------------------------------------------------
(* Run *)

\* the targets Replace may compute: ".", a name, a name below a new
\* directory, a name below an entry
Targets == {Dot, <<"a">>, <<"b">>, <<"x">>, <<"x", "a">>, <<"a", "x">>}

\* the filter of FindMatches ahead of the pattern (onlyDir unset, no hidden
\* entries)
Eligible(v) == ~(v.IsDir /\ ~includeDir)

\* mutant: Run goes on to Apply after a failed Replace
RunAfterReplace_GoesOn(failed) ==
    [pc |-> "apply", ret |-> IF failed THEN "replaceErr" ELSE ret]

\* the end of Run: the error of Replace is returned, else Apply is entered
RunAfterReplace(failed) ==
    IF failed THEN [pc |-> "returned", ret |-> "replaceErr"]
    ELSE [pc |-> "apply", ret |-> ret]

\* Run without an undo file: FindMatches (which entries the pattern matches
\* is an input), SortMatches when directories are included, Replace (what
\* the replacement yields is an input, and so is the match, if any, for
\* which handleVariables fails: the matches before it have their targets)
Run ==
    /\ pc = "run"
    /\ ~undoFile
    /\ \E sel \in SUBSET {k \in 1..Len(paths) : Eligible(paths[k])} :
        /\ Cardinality(sel) <= MaxMatches
        /\ LET found == Pick(paths, sel, 1)
               sorted == IF includeDir THEN SortMatches(found) ELSE found
           IN  \E t \in [1..Len(sorted) -> Targets],
                  failAt \in 0..Len(sorted) :
                 /\ matches' = [k \in 1..Len(sorted) |->
                                 IF failAt = 0 \/ k < failAt
                                 THEN [sorted[k] EXCEPT !.Target = t[k]]
                                 ELSE sorted[k]]
                 /\ pc' = RunAfterReplace(failAt # 0).pc
                 /\ ret' = RunAfterReplace(failAt # 0).ret
    /\ UNCHANGED tplVars
    /\ UNCHANGED pass
    /\ UNCHANGED <<fs, log, paths, conflicts, exec, fixConflicts, includeDir,
                   outputFile, undoFile, m, visited, i, fs0, fsA, logA,
                   matches0, matches1, renamed>>

\* a later run with the map file of the run before as undo file, in execute
\* mode and with the same fix-conflicts flag: Undo up to its call of Apply
RunUndo ==
    /\ pc = "returned"
    /\ ~undoFile
    /\ log.written
    /\ undoFile' = TRUE
    /\ outputFile' = FALSE
    /\ matches' = UndoList(log.ops)
    /\ conflicts' = NoConflicts
    /\ ret' = ""
    /\ renamed' = << >>
    /\ pc' = "apply"
    /\ UNCHANGED tplVars
    /\ UNCHANGED pass
    /\ UNCHANGED <<fs, log, paths, exec, fixConflicts, includeDir, m, visited,
                   i, fs0, fsA, logA, matches0, matches1>>

----------------------------------------------------------------------------
(* Strings of the replacement: a string is the sequence of its characters   *)

Digits == <<"0", "1", "2", "3", "4", "5", "6", "7", "8", "9">>

IsDigit(c) == \E k \in 1..10 : Digits[k] = c

DigitVal(c) == (CHOOSE k \in 1..10 : Digits[k] = c) - 1

\* the string s repeated n times
RECURSIVE Rep(_, _)
Rep(s, n) == IF n <= 0 THEN << >> ELSE s \o Rep(s, n - 1)

\* the decimal digits of n >= 0
RECURSIVE Itoa(_)
Itoa(n) ==
    IF n < 10 THEN <<Digits[n + 1]>>
    ELSE Itoa(n \div 10) \o <<Digits[(n % 10) + 1]>>

\* the value of a string of digits, leading zeros allowed
RECURSIVE Atoi(_)
Atoi(ds) ==
    IF ds = << >> THEN 0
    ELSE 10 * Atoi(SubSeq(ds, 1, Len(ds) - 1)) + DigitVal(ds[Len(ds)])

\* indexRegex, %([0-9]?)+d, matched at position k of s: the position of the
\* closing d, or 0 when there is no match at k
TokenEnd(s, k) ==
    IF k > Len(s) \/ s[k] # "%" THEN 0
    ELSE LET e == CHOOSE e \in (k + 1)..(Len(s) + 1) :
                    /\ \A j \in (k + 1)..(e - 1) : IsDigit(s[j])
                    /\ (e = Len(s) + 1 \/ ~IsDigit(s[e]))
         IN  IF e <= Len(s) /\ s[e] = "d" THEN e ELSE 0

\* indexRegex.Match
HasToken(s) == \E k \in 1..Len(s) : TokenEnd(s, k) # 0

\* indexRegex.Find: the leftmost match
FindToken(s) ==
    LET k == CHOOSE k \in 1..Len(s) :
                /\ TokenEnd(s, k) # 0
                /\ \A j \in 1..(k - 1) : TokenEnd(s, j) = 0
    IN  SubSeq(s, k, TokenEnd(s, k))

\* fmt.Sprintf(b, n) for a verb b of the shape %<digits>d: a leading 0 is
\* the zero-padding flag, the rest is the width; padding goes between the
\* sign and the digits when it is zeros, ahead of the sign when it is spaces
Sprintf(b, n) ==
    LET ds == SubSeq(b, 2, Len(b) - 1)
        zero == ds # << >> /\ ds[1] = "0"
        width == Atoi(ds)
        body == Itoa(IF n < 0 THEN 0 - n ELSE n)
        sign == IF n < 0 THEN <<"-">> ELSE << >>
        pad == width - Len(body) - Len(sign)
    IN  IF zero THEN sign \o Rep(<<"0">>, pad) \o body
        ELSE Rep(<<" ">>, pad) \o sign \o body

\* indexRegex.ReplaceAllString(s, r) from position k on
RECURSIVE ReplaceAllFrom(_, _, _)
ReplaceAllFrom(s, r, k) ==
    IF k > Len(s) THEN << >>
    ELSE IF TokenEnd(s, k) # 0
    THEN r \o ReplaceAllFrom(s, r, TokenEnd(s, k) + 1)
    ELSE <<s[k]>> \o ReplaceAllFrom(s, r, k + 1)

\* the numbering step of Replace for the match at index idx (from 0)
Numbered(str, idx) ==
    IF HasToken(str)
    THEN ReplaceAllFrom(str, Sprintf(FindToken(str), startNumber + idx), 1)
    ELSE str

\* mutant: every match gets the start number
Replace_SameNumber(ms) ==
    [k \in 1..Len(ms) |->
        [ms[k] EXCEPT !.Target = <<Numbered(replaceString, 0)>>]]

\* Replace for a pattern that matches the whole name of every match, so that
\* the replaced name is op.replaceString; no template variable
Replace(ms) ==
    [k \in 1..Len(ms) |->
        [ms[k] EXCEPT !.Target = <<Numbered(replaceString, k - 1)>>]]

\* the state of template expansion and numbering in a run that uses neither
TplIdle ==
    /\ startNumber = 1
    /\ replaceString = << >>
    /\ exifData = << >>
    /\ out = [out |-> << >>, err |-> FALSE]

----------------------------------------------------------------------------
(* Specifications *)

Init ==
    /\ \E S \in Present(World) :
        /\ 1 \in S
        /\ fs = FsOf(World, S, {})
    /\ paths \in PathLists(World, fs)
    /\ exec \in BOOLEAN
    /\ fixConflicts \in BOOLEAN
    /\ includeDir \in BOOLEAN
    /\ outputFile \in BOOLEAN
    /\ undoFile = FALSE
    /\ log = NoLog
    /\ matches = << >>
    /\ conflicts = NoConflicts
    /\ m = EmptyMap
    /\ visited = {}
    /\ i = 0
    /\ pc = "run"
    /\ ret = ""
    /\ fs0 = fs
    /\ fsA = fs
    /\ logA = NoLog
    /\ matches0 = << >>
    /\ matches1 = << >>
    /\ renamed = << >>
    /\ pass = 0
    /\ TplIdle

Next ==
    \/ Run
    \/ ApplyEnter
    \/ DetectGroup
    \/ ApplyDecide
    \/ ApplyRename
    \/ ApplyFinish
    \/ RunUndo

Spec == Init /\ [][Next]_vars

----------------------------------------------------------------------------
(* Run and Undo in execute mode with a map file, directories included, over *)
(* a world with a directory whose name sorts below "."                      *)

WorldUndo == << Ent(Dot, "+", TRUE), Ent(Dot, "a", FALSE),
                Ent(Dot, "d", TRUE), Ent(<<"+">>, "a", FALSE),
                Ent(<<"d">>, "a", FALSE) >>

InitUndo ==
    /\ \E S \in Present(WorldUndo) : fs = FsOf(WorldUndo, S, {})
    /\ paths \in PathLists(WorldUndo, fs)
    /\ exec = TRUE
    /\ fixConflicts \in BOOLEAN
    /\ includeDir = TRUE
    /\ outputFile = TRUE
    /\ undoFile = FALSE
    /\ log = NoLog
    /\ matches = << >>
    /\ conflicts = NoConflicts
    /\ m = EmptyMap
    /\ visited = {}
    /\ i = 0
    /\ pc = "run"
    /\ ret = ""
    /\ fs0 = fs
    /\ fsA = fs
    /\ logA = NoLog
    /\ matches0 = << >>
    /\ matches1 = << >>
    /\ renamed = << >>
    /\ pass = 0
    /\ TplIdle

SpecUndo == InitUndo /\ [][Next]_vars

----------------------------------------------------------------------------
(* DetectConflicts on its own: any batch of the five files, each with a     *)
(* target that is ".", an entry, or a name that may or may not exist        *)

TargetsDetect == {Dot, <<"a">>, <<"x">>, <<"x (2)">>, <<"y">>}

InitDetect ==
    /\ \E extra \in SUBSET {"a (2)", "x (2)", "y"} :
        fs = FsOf(WorldDetect, 1..Len(WorldDetect), extra)
    /\ paths \in PathLists(WorldDetect, fs)
    /\ \E sel \in SUBSET (1..Len(paths)) :
        /\ Cardinality(sel) <= MaxBatch
        /\ LET found == Pick(paths, sel, 1)
           IN  \E t \in [1..Len(found) -> TargetsDetect] :
                 matches = [k \in 1..Len(found) |->
                                [found[k] EXCEPT !.Target = t[k]]]
    /\ fixConflicts \in BOOLEAN
    /\ exec = FALSE
    /\ includeDir = FALSE
    /\ outputFile = FALSE
    /\ undoFile = FALSE
    /\ log = NoLog
    /\ conflicts = NoConflicts
    /\ m = EmptyMap
    /\ visited = {}
    /\ i = 0
    /\ pc = "detect"
    /\ ret = ""
    /\ fs0 = fs
    /\ fsA = fs
    /\ logA = NoLog
    /\ matches0 = << >>
    /\ matches1 = << >>
    /\ renamed = << >>
    /\ pass = 0
    /\ TplIdle

NextDetect ==
    \/ DetectEnter
    \/ DetectGroup
    \/ DetectAgain

SpecDetect == InitDetect /\ [][NextDetect]_vars

----------------------------------------------------------------------------
(* SortMatches on its own: any matches of the listings of ".", a, a/b and   *)
(* "+", the directories listed in any order                                 *)

SortOnly ==
    /\ pc = "sort"
    /\ matches' = SortMatches(matches)
    /\ matches0' = matches
    /\ pc' = "sorted"
    /\ UNCHANGED tplVars
    /\ UNCHANGED pass
    /\ UNCHANGED <<fs, log, paths, conflicts, exec, fixConflicts, includeDir,
                   outputFile, undoFile, m, visited, i, ret, fs0, fsA, logA,
                   matches1, renamed>>

InitSort ==
    /\ fs = FsOf(WorldSort, 1..Len(WorldSort), {})
    /\ paths \in PathLists(WorldSort, fs)
    /\ \E sel \in SUBSET (1..Len(paths)) : matches = Pick(paths, sel, 1)
    /\ fixConflicts = FALSE
    /\ exec = FALSE
    /\ includeDir = TRUE
    /\ outputFile = FALSE
    /\ undoFile = FALSE
    /\ log = NoLog
    /\ conflicts = NoConflicts
    /\ m = EmptyMap
    /\ visited = {}
    /\ i = 0
    /\ pc = "sort"
    /\ ret = ""
    /\ fs0 = fs
    /\ fsA = fs
    /\ logA = NoLog
    /\ matches0 = << >>
    /\ matches1 = << >>
    /\ renamed = << >>
    /\ pass = 0
    /\ TplIdle

NextSort == SortOnly

SpecSort == InitSort /\ [][NextSort]_vars

----------------------------------------------------------------------------
(* Numbering on its own: FindMatches, SortMatches and Replace of Run over   *)
(* the entries of the sorting world, for a replacement and a start number   *)

\* the counter token of width 3
Tok3 == <<"%", "0", "3", "d">>

\* replacement strings: the token alone, after a prefix, ahead of a suffix;
\* other counter tokens; two different tokens; no token
Templates ==
    {Tok3, <<"n">> \o Tok3, Tok3 \o <<".", "j">>, <<"%", "d">>,
     <<"%", "3", "d">>, <<"%", "d", "_">> \o Tok3, <<"x">>}

\* values of --start-num
StartNumbers == {0 - 1, 1, 98, 998}

RunNumber ==
    /\ pc = "number"
    /\ \E sel \in SUBSET {k \in 1..Len(paths) : Eligible(paths[k])} :
        LET found == Pick(paths, sel, 1)
            sorted == IF includeDir THEN SortMatches(found) ELSE found
        IN  /\ matches' = Replace(sorted)
            /\ matches0' = found
    /\ pc' = "replaced"
    /\ UNCHANGED tplVars
    /\ UNCHANGED pass
    /\ UNCHANGED <<fs, log, paths, conflicts, exec, fixConflicts, includeDir,
                   outputFile, undoFile, m, visited, i, ret, fs0, fsA, logA,
                   matches1, renamed>>

InitNumber ==
    /\ fs = FsOf(WorldSort, 1..Len(WorldSort), {})
    /\ paths \in PathLists(WorldSort, fs)
    /\ startNumber \in StartNumbers
    /\ replaceString \in Templates
    /\ exifData = << >>
    /\ out = [out |-> << >>, err |-> FALSE]
    /\ includeDir \in BOOLEAN
    /\ matches = << >>
    /\ fixConflicts = FALSE
    /\ exec = FALSE
    /\ outputFile = FALSE
    /\ undoFile = FALSE
    /\ log = NoLog
    /\ conflicts = NoConflicts
    /\ m = EmptyMap
    /\ visited = {}
    /\ i = 0
    /\ pc = "number"
    /\ ret = ""
    /\ fs0 = fs
    /\ fsA = fs
    /\ logA = NoLog
    /\ matches0 = << >>
    /\ matches1 = << >>
    /\ renamed = << >>
    /\ pass = 0

NextNumber == RunNumber

SpecNumber == InitNumber /\ [][NextNumber]_vars

----------------------------------------------------------------------------
(* replaceExifVariables on its own.  The input is a sequence of pieces, a   *)
(* piece being a character or a whole token {{exif.<field>}}; the Exif       *)
(* record holds a slice as a sequence and a string as its characters         *)

\* the tokens exifRegex matches
ExifTokens ==
    {"{{exif.iso}}", "{{exif.et}}", "{{exif.fl}}", "{{exif.w}}",
     "{{exif.h}}", "{{exif.wh}}", "{{exif.make}}", "{{exif.model}}",
     "{{exif.lens}}", "{{exif.fnum}}"}

\* strings.ReplaceAll(s, "/", "_")
NoSlash(s) == [k \in 1..Len(s) |-> IF s[k] = "/" THEN "_" ELSE s[k]]

\* exifDivision: nothing for an empty slice, else the quotient of the ratio
\* "<a>/<b>" held by its first element
exifDivision(slice) ==
    IF Len(slice) = 0 THEN << >>
    ELSE LET r == slice[1]
             k == CHOOSE k \in 1..Len(r) : r[k] = "/"
         IN  Itoa(Atoi(SubSeq(r, 1, k - 1))
                    \div Atoi(SubSeq(r, k + 1, Len(r))))

\* the switch of replaceExifVariables: what the token is replaced with
ExifValue(tok, x) ==
    CASE tok = "{{exif.model}}" -> NoSlash(x.Model)
      [] tok = "{{exif.lens}}" -> NoSlash(x.LensModel)
      [] tok = "{{exif.make}}" -> x.Make
      [] tok = "{{exif.iso}}" ->
            <<"I", "S", "O">>
            \o (IF Len(x.ISOSpeedRatings) > 0
                THEN Itoa(x.ISOSpeedRatings[1]) ELSE << >>)
      [] tok = "{{exif.et}}" ->
            (IF Len(x.ExposureTime) > 0
             THEN NoSlash(x.ExposureTime[1]) ELSE << >>)
            \o <<"s">>
      [] tok = "{{exif.fnum}}" -> <<"f">> \o exifDivision(x.FNumber)
      [] tok = "{{exif.fl}}" -> exifDivision(x.FocalLength) \o <<"m", "m">>
      [] tok = "{{exif.wh}}" ->
            IF Len(x.ImageLength) > 0 /\ Len(x.ImageWidth) > 0
            THEN Itoa(x.ImageWidth[1]) \o <<"x">> \o Itoa(x.ImageLength[1])
            ELSE << >>
      [] tok = "{{exif.h}}" ->
            IF Len(x.ImageLength) > 0 THEN Itoa(x.ImageLength[1]) ELSE << >>
      [] tok = "{{exif.w}}" ->
            IF Len(x.ImageWidth) > 0 THEN Itoa(x.ImageWidth[1]) ELSE << >>

\* replaceExifVariables once the file is open: every token of the input
\* replaced (the values hold no token, so the order of the submatches does
\* not show)
replaceExifVariables(input, x) ==
    Concat([k \in 1..Len(input) |->
                IF input[k] \in ExifTokens THEN ExifValue(input[k], x)
                ELSE <<input[k]>>])

\* the Exif records: every field either left at its zero value (absent from
\* the file, or the file not decodable) or filled
ExifRecords ==
    [ISOSpeedRatings : {<< >>, <<100>>},
     Make : {<< >>, <<"C">>},
     Model : {<< >>, <<"M", "/", "1">>},
     ExposureTime : {<< >>, << <<"1", "/", "5", "0">> >>},
     FocalLength : {<< >>, << <<"5", "0", "/", "1">> >>},
     FNumber : {<< >>, << <<"8", "/", "2">> >>},
     ImageWidth : {<< >>, <<4>>},
     ImageLength : {<< >>, <<3>>},
     LensModel : {<< >>, <<"L", "/", "2">>}]

\* the inputs: a token alone, or between two characters
ExifInputs ==
    {<<t>> : t \in ExifTokens} \cup {<<"a", t, "b">> : t \in ExifTokens}

\* handleVariables calling replaceExifVariables: os.Open may fail
ExpandExif ==
    /\ pc = "exif"
    /\ \E opened \in BOOLEAN :
        out' = IF opened
               THEN [out |-> replaceExifVariables(replaceString, exifData),
                     err |-> FALSE]
               ELSE [out |-> << >>, err |-> TRUE]
    /\ pc' = "expanded"
    /\ UNCHANGED <<startNumber, replaceString, exifData, pass>>
    /\ UNCHANGED <<fs, log, paths, matches, conflicts, exec, fixConflicts,
                   includeDir, outputFile, undoFile, m, visited, i, ret, fs0,
                   fsA, logA, matches0, matches1, renamed>>

InitExif ==
    /\ exifData \in ExifRecords
    /\ replaceString \in ExifInputs
    /\ out = [out |-> << >>, err |-> FALSE]
    /\ startNumber = 1
    /\ fs = FsOf(World, {1}, {})
    /\ paths = << >>
    /\ matches = << >>
    /\ includeDir = FALSE
    /\ fixConflicts = FALSE
    /\ exec = FALSE
    /\ outputFile = FALSE
    /\ undoFile = FALSE
    /\ log = NoLog
    /\ conflicts = NoConflicts
    /\ m = EmptyMap
    /\ visited = {}
    /\ i = 0
    /\ pc = "exif"
    /\ ret = ""
    /\ fs0 = fs
    /\ fsA = fs
    /\ logA = NoLog
    /\ matches0 = << >>
    /\ matches1 = << >>
    /\ renamed = << >>
    /\ pass = 0

NextExif == ExpandExif

SpecExif == InitExif /\ [][NextExif]_vars

----------------------------------------------------------------------------
(* Claims *)

FullSource(ch) == Join(ch.BaseDir, ch.Source)
FullTarget(ch) == Join(ch.BaseDir, ch.Target)

\* some conflict of some kind is in op.conflicts
ConflictFound ==
    \/ conflicts.emptyFilename # << >>
    \/ conflicts.fileExists # << >>
    \/ conflicts.overwritingNewPath # << >>

\* the filesystem f after the renames of the first n changes of ms, each
\* with the directories its target needs
RECURSIVE Replay(_, _, _)
Replay(f, ms, n) ==
    IF n = 0 THEN f
    ELSE LET g == Replay(f, ms, n - 1)
             mk == IF Len(ms[n].Target) > 1
                   THEN MkdirAll(g, Dir(ms[n].Target)).fs
                   ELSE g
         IN  Rename(mk, FullSource(ms[n]), FullTarget(ms[n])).fs

\* C1: when DetectConflicts has found a conflict of any kind and auto-fix is
\* off, Apply is past its test only by having returned the conflict error,
\* with no rename done, the filesystem as it was when Apply was entered and
\* the map file as it was, in a dry run and in execute mode
C1_RefusedUntouched ==
    (ConflictFound /\ ~fixConflicts /\ pc \in {"loop", "returned"})
        => /\ pc = "returned"
           /\ ret = "conflict"
           /\ renamed = << >>
    /\ pass = 0
           /\ fs = fsA
           /\ log = logA

\* C1 witness: Apply has refused a batch in execute mode with an output file
C1_Witness ==
    /\ pc = "returned"
    /\ ret = "conflict"
    /\ exec
    /\ outputFile
    /\ ConflictFound

\* the directories and the rename of the change ch succeed on f
StepOk(f, ch) ==
    LET mk == IF Len(ch.Target) > 1
              THEN MkdirAll(f, Dir(ch.Target))
              ELSE [ok |-> TRUE, fs |-> f]
    IN  mk.ok /\ Rename(mk.fs, FullSource(ch), FullTarget(ch)).ok

\* C9: in execute mode the loop of Apply is at match i only while the
\* renames of all matches before i succeeded, and when Apply has returned a
\* rename error the rename of the match at i is the one that failed: exactly
\* the matches before it have been renamed, the filesystem is the one those
\* renames leave (with at most the directories made for the failed match),
\* and no map file has been written
C9_AbortAtFailure ==
    /\ (pc = "loop" /\ exec)
        => /\ ret = ""
           /\ \A k \in 1..(i - 1) :
                StepOk(Replay(fsA, matches, k - 1), matches[k])
           /\ fs = Replay(fsA, matches, i - 1)
    /\ (pc = "returned" /\ ret = "execErr")
        => /\ exec
           /\ i \in 1..Len(matches)
           /\ Len(renamed) = i - 1
           /\ \A k \in 1..(i - 1) :
                /\ renamed[k].source = FullSource(matches[k])
                /\ renamed[k].target = FullTarget(matches[k])
           /\ LET before == Replay(fsA, matches, i - 1)
              IN  /\ ~StepOk(before, matches[i])
                  /\ fs \in {before,
                             MkdirAll(before, Dir(matches[i].Target)).fs}
           /\ log = logA

\* C9 witness: the rename of a later match failed after an earlier rename
\* that changed the filesystem, with an output file configured
C9_Witness ==
    /\ pc = "returned"
    /\ ret = "execErr"
    /\ i > 1
    /\ i < Len(matches)
    /\ fs # fsA
    /\ outputFile

\* every match of the batch has been renamed by the running Apply
AllRenamed ==
    /\ Len(renamed) = Len(matches)
    /\ \A k \in 1..Len(matches) :
        /\ renamed[k].source = FullSource(matches[k])
        /\ renamed[k].target = FullTarget(matches[k])

C2_RoundTrip ==
    (undoFile /\ pc = "returned")
        => \A k \in 1..Len(log.ops) :
             LET src == FullSource(log.ops[k])
             IN  src \in DOMAIN fs /\ fs[src] = fs0[src]

\* C2, second half: the filesystem is then the one before the forward run
C2_SameFilesystem == (undoFile /\ pc = "returned") => fs = fs0

\* the match at index a lies inside the directory that is the match at b
Inside(ms, a, b) ==
    /\ ms[b].IsDir
    /\ IsPrefix(FullSource(ms[b]), ms[a].BaseDir)

\* C3: after SortMatches every match that lies inside a directory of the
\* batch comes before that directory
C3_ChildFirst ==
    pc = "sorted"
        => \A a, b \in 1..Len(matches) : Inside(matches, a, b) => a < b

\* C3 on the batches without the directory "+": the order holds when no base
\* directory sorts below "."
C3_ChildFirstPlainNames ==
    (pc = "sorted" /\ \A k \in 1..Len(matches) :
                        /\ matches[k].Source # <<"+">>
                        /\ matches[k].BaseDir # <<"+">>)
        => \A a, b \in 1..Len(matches) : Inside(matches, a, b) => a < b

----------------------------------------------------------------------------
(* Claims about DetectConflicts.  matches0 is the batch it was given and    *)
(* matches1 the batch after its first loop; the filesystem does not change  *)
(* while pc is "groups" or "detected".                                      *)

Range(seq) == {seq[k] : k \in 1..Len(seq)}

Detected == pc = "detected"

AfterLoop1 == pc \in {"groups", "detected"}

\* the match at index k of the batch was given the target "."
EmptyTarget(k) == matches0[k].Target = Dot

\* the kinds under which the match at index k of the batch is reported
ReportedEmpty(k) ==
    \E c \in Range(conflicts.emptyFilename) :
        c.source = <<FullSource(matches0[k])>>

ReportedExists(k) ==
    \E c \in Range(conflicts.fileExists) :
        /\ c.source = <<FullSource(matches0[k])>>
        /\ c.target = FullTarget(matches0[k])

ReportedOverwrite(k) ==
    \E c \in Range(conflicts.overwritingNewPath) :
        FullSource(matches0[k]) \in Range(c.source)

\* no two matches of the batch were given the same full target path
DistinctTargets(ms) ==
    \A a, b \in 1..Len(ms) : a # b => FullTarget(ms[a]) # FullTarget(ms[b])

\* C4 as stated: a batch with no two equal full targets and no full target on
\* the filesystem yields no conflict and keeps its targets
C4_NoConflictAsStated ==
    (Detected /\ DistinctTargets(matches0)
     /\ \A k \in 1..Len(matches0) : FullTarget(matches0[k]) \notin DOMAIN fs)
        => conflicts = NoConflicts /\ matches = matches0

\* C4 amended: a batch with no two equal full targets and for every full
\* target the answer "does not exist" from os.Stat (so no target below a
\* file either) yields no conflict of any kind and keeps every target, with
\* auto-fix on or off
C4_NoConflict ==
    (Detected /\ DistinctTargets(matches0)
     /\ \A k \in 1..Len(matches0) :
            Stat(fs, FullTarget(matches0[k])) = "ENOENT")
        => conflicts = NoConflicts /\ matches = matches0

\* C4 witness: DetectConflicts has run with auto-fix on over three matches
\* with distinct targets that os.Stat does not find
C4_Witness ==
    /\ Detected
    /\ fixConflicts
    /\ Len(matches0) >= 3
    /\ DistinctTargets(matches0)
    /\ \A k \in 1..Len(matches0) :
            Stat(fs, FullTarget(matches0[k])) = "ENOENT"

\* the matches of ms among the indices K whose full target is p
GroupOf(ms, K, p) == {k \in K : FullTarget(ms[k]) = p}

\* the FutureOverwrite conflicts are one for each path that two or more of
\* the matches K have as full target after the first loop, each listing
\* the full sources of those matches
OverwriteReported(K) ==
    LET cs == conflicts.overwritingNewPath
    IN  /\ \A k \in K :
            Cardinality(GroupOf(matches1, K, FullTarget(matches1[k]))) > 1
                => \E c \in Range(cs) : c.target = FullTarget(matches1[k])
        /\ \A a, b \in 1..Len(cs) : a # b => cs[a].target # cs[b].target
        /\ \A c \in Range(cs) :
            LET g == GroupOf(matches1, K, c.target)
            IN  /\ Cardinality(g) > 1
                /\ Len(c.source) = Cardinality(g)
                /\ Range(c.source) = {FullSource(matches1[k]) : k \in g}

\* C5 as stated: the groups are taken over all matches of the batch
C5_OverwriteAsStated ==
    Detected => OverwriteReported(1..Len(matches0))

\* C5 amended: the groups are taken over the matches whose target is not
\* ".": a match with the empty-name target is in no group, and the targets
\* grouped are those the first loop left (after its TargetExists fix)
C5_Overwrite ==
    Detected => OverwriteReported({k \in 1..Len(matches0) : ~EmptyTarget(k)})

\* C5 witness: two groups reported at once, auto-fix off
C5_Witness ==
    /\ Detected
    /\ ~fixConflicts
    /\ Len(conflicts.overwritingNewPath) = 2

\* C6: after DetectConflicts with auto-fix, in every FutureOverwrite group
\* the match of lowest index has the target the first loop left it and every
\* later match another one; the full targets of all matches are pairwise
\* distinct; and no target rewritten by either loop is on the filesystem
C6_FixedDistinct ==
    (Detected /\ fixConflicts)
        => /\ \A c \in Range(conflicts.overwritingNewPath) :
                LET g == GroupOf(matches1,
                                 {k \in 1..Len(matches0) : ~EmptyTarget(k)},
                                 c.target)
                    first == CHOOSE k \in g : \A j \in g : k <= j
                IN  /\ matches[first].Target = matches1[first].Target
                    /\ \A k \in g \ {first} :
                        FullTarget(matches[k]) # c.target
           /\ DistinctTargets(matches)
           /\ \A k \in 1..Len(matches) :
                (~EmptyTarget(k) /\ matches[k].Target # matches0[k].Target)
                    => FullTarget(matches[k]) \notin DOMAIN fs

\* C6 witness: auto-fix has handled two groups
C6_Witness ==
    /\ Detected
    /\ fixConflicts
    /\ Len(conflicts.overwritingNewPath) = 2

\* C7 as stated: TargetExists is reported for a match exactly when its full
\* target is on the filesystem and is not the full source of a match
C7_ExistsAsStated ==
    AfterLoop1
        => \A k \in 1..Len(matches0) :
            ~EmptyTarget(k) =>
                (ReportedExists(k) <=>
                    /\ FullTarget(matches0[k]) \in DOMAIN fs
                    /\ \A j \in 1..Len(matches0) :
                        FullSource(matches0[j]) # FullTarget(matches0[k]))

\* C7, the batch's own sources: a match whose full target is the full source
\* of a match of the batch is not reported as TargetExists
C7_BatchSourceNotReported ==
    AfterLoop1
        => \A k, j \in 1..Len(matches0) :
            FullSource(matches0[j]) = FullTarget(matches0[k])
                => ~ReportedExists(k)

\* C7, what the code does: TargetExists is reported for a match whose
\* target is not "." exactly when os.Stat of its full target gives no error
\* or an error other than "does not exist", whether or not the path is the
\* source of a match of the batch (its own included)
C7_ExistsWhateverTheBatch ==
    AfterLoop1
        => /\ \A k \in 1..Len(matches0) :
                ReportedExists(k) <=>
                    (~EmptyTarget(k)
                     /\ StatFinds(fs, FullTarget(matches0[k])))
           /\ Len(conflicts.fileExists)
                = Cardinality({k \in 1..Len(matches0) : ReportedExists(k)})

\* the entry that was at the path src before the forward run is on the
\* filesystem under the name it had
KeepsName(src) ==
    \E p \in DOMAIN fs :
        /\ p # Dot
        /\ fs[p] = fs0[src]
        /\ p[Len(p)] = src[Len(src)]

\* C8: a match given the target "." is reported as EmptyName and under no
\* other kind; its target is then its source with auto-fix on and still "."
\* with auto-fix off; no other match is reported as EmptyName; and when a
\* forward run with auto-fix has returned, the entry has the name it had
C8_EmptyName ==
    /\ AfterLoop1
        => /\ \A k \in 1..Len(matches0) :
                /\ ReportedEmpty(k) <=> EmptyTarget(k)
                /\ EmptyTarget(k)
                    => /\ matches[k].Target =
                            IF fixConflicts THEN matches0[k].Source ELSE Dot
                       /\ \A c \in Range(conflicts.fileExists) :
                            c.source # <<FullSource(matches0[k])>>
                       /\ ~ReportedOverwrite(k)
           /\ Len(conflicts.emptyFilename)
                = Cardinality({k \in 1..Len(matches0) : EmptyTarget(k)})
    /\ (pc = "returned" /\ ~undoFile /\ fixConflicts /\ ret # "conflict")
        => \A k \in 1..Len(matches0) :
                EmptyTarget(k) => KeepsName(FullSource(matches0[k]))

\* C8 witness: a forward run in execute mode with auto-fix has renamed the
\* matches of a batch that held a match with target "." and other matches
C8_Witness ==
    /\ pc = "returned"
    /\ ~undoFile
    /\ fixConflicts
    /\ exec
    /\ ret = "nil"
    /\ fs # fs0
    /\ \E k \in 1..Len(matches0) : EmptyTarget(k)

----------------------------------------------------------------------------
\* C11: in a dry run the filesystem stays the one the run began with, no
\* rename is performed and no map file is written, whatever the matches,
\* the conflicts, the auto-fix flag and the output file
C11_DryRunFrame ==
    ~exec => /\ fs = fs0
             /\ renamed = << >>
    /\ pass = 0
             /\ log = NoLog

\* C11 witness: a dry run with auto-fix and an output file has returned nil
\* for a batch of two or more matches in which a conflict was found
C11_Witness ==
    /\ ~exec
    /\ pc = "returned"
    /\ ret = "nil"
    /\ outputFile
    /\ fixConflicts
    /\ Len(matches) > 1
    /\ ConflictFound
    /\ matches # matches0

----------------------------------------------------------------------------
\* the string p is the number n written with zeros up to width 3: a sign if
\* n < 0, then digits only, of value n, three characters or more in all and
\* no zero ahead of the number when there are more than three
IsPadded3(p, n) ==
    LET neg == p # << >> /\ p[1] = "-"
        ds == IF neg THEN Tail(p) ELSE p
    IN  /\ ds # << >>
        /\ \A j \in 1..Len(ds) : IsDigit(ds[j])
        /\ (IF neg THEN 0 - Atoi(ds) ELSE Atoi(ds)) = n
        /\ Len(p) >= 3
        /\ (Len(p) > 3 => ds[1] # "0")

\* the text around the token %03d in the replacements that hold it alone
Around == {[pre |-> << >>, post |-> << >>],
           [pre |-> <<"n">>, post |-> << >>],
           [pre |-> << >>, post |-> <<".", "j">>]}

\* the names of the sources of a match list, in order
SourcesOf(ms) == [k \in 1..Len(ms) |-> <<ms[k].BaseDir, ms[k].Source>>]

\* C12: when the replacement holds the token %03d, the match at position k
\* (from 1) of the final match list, the sorted list when directories are
\* included and the list as found otherwise, gets the target in which the
\* token is replaced by startNumber + k - 1 zero-padded to width 3
C12_Numbering ==
    pc = "replaced"
        => /\ SourcesOf(matches) =
                SourcesOf(IF includeDir THEN SortMatches(matches0)
                          ELSE matches0)
           /\ \A a \in Around :
                replaceString = a.pre \o Tok3 \o a.post
                    => \A k \in 1..Len(matches) :
                        LET name == matches[k].Target[1]
                            p == SubSeq(name, Len(a.pre) + 1,
                                        Len(name) - Len(a.post))
                        IN  /\ name = a.pre \o p \o a.post
                            /\ IsPadded3(p, startNumber + k - 1)

\* C12 witness: three or more matches, directories included and moved by
\* the sort, numbered from 998 after a prefix
C12_Witness ==
    /\ pc = "replaced"
    /\ includeDir
    /\ replaceString = <<"n">> \o Tok3
    /\ startNumber = 998
    /\ Len(matches) >= 3
    /\ SourcesOf(matches) # SourcesOf(matches0)
    /\ matches[3].Target = <<<<"n", "1", "0", "0", "0">>>>

\* C12, a replacement with another counter token ahead of %03d: every token
\* is written in the format of the first one
C12_FirstTokenDecides ==
    (pc = "replaced" /\ replaceString = <<"%", "d", "_">> \o Tok3)
        => \A k \in 1..Len(matches) :
            LET n == Itoa(startNumber + k - 1)
            IN  startNumber + k - 1 >= 0
                    => matches[k].Target = <<n \o <<"_">> \o n>>

----------------------------------------------------------------------------
\* C13: when Replace has failed for a match, Run has returned that error:
\* DetectConflicts was not entered, no rename was performed, the filesystem
\* and the map file are as they were, in execute mode as in a dry run
C13_ReplaceErrorAborts ==
    ret = "replaceErr"
        => /\ pc = "returned"
           /\ fs = fs0
           /\ log = NoLog
           /\ renamed = << >>
    /\ pass = 0
           /\ conflicts = NoConflicts
           /\ matches0 = << >>
           /\ m = EmptyMap

\* C13 witness: a run in execute mode with an output file in which Replace
\* failed at the second or a later match, the first having got a target
\* that is on the filesystem
C13_Witness ==
    /\ ret = "replaceErr"
    /\ exec
    /\ outputFile
    /\ Len(matches) > 1
    /\ matches[1].Target # Dot
    /\ FullTarget(matches[1]) \in DOMAIN fs

----------------------------------------------------------------------------
\* the metadata the token reads is absent from the record
Absent(tok, x) ==
    CASE tok = "{{exif.model}}" -> x.Model = << >>
      [] tok = "{{exif.lens}}" -> x.LensModel = << >>
      [] tok = "{{exif.make}}" -> x.Make = << >>
      [] tok = "{{exif.iso}}" -> x.ISOSpeedRatings = << >>
      [] tok = "{{exif.et}}" -> x.ExposureTime = << >>
      [] tok = "{{exif.fnum}}" -> x.FNumber = << >>
      [] tok = "{{exif.fl}}" -> x.FocalLength = << >>
      [] tok = "{{exif.wh}}" -> x.ImageLength = << >> \/ x.ImageWidth = << >>
      [] tok = "{{exif.h}}" -> x.ImageLength = << >>
      [] tok = "{{exif.w}}" -> x.ImageWidth = << >>

\* the input without its tokens
WithoutTokens(input) ==
    Concat([k \in 1..Len(input) |->
                IF input[k] \in ExifTokens THEN << >> ELSE <<input[k]>>])

\* C14: when the file was opened and the field of the token is absent, the
\* expansion returns no error and the token is replaced by the empty string
C14_AbsentIsEmpty ==
    (pc = "expanded" /\ ~out.err)
        => \A k \in 1..Len(replaceString) :
            (replaceString[k] \in ExifTokens
             /\ Absent(replaceString[k], exifData))
                => out.out = WithoutTokens(replaceString)

\* C14, what the code does: no error, and an absent field leaves the fixed
\* text of its token: ISO, s, f, mm, and nothing for the other tokens
C14_AbsentLeavesFixedText ==
    (pc = "expanded" /\ ~out.err)
        => \A k \in 1..Len(replaceString) :
            LET tok == replaceString[k]
                left == CASE tok = "{{exif.iso}}" -> <<"I", "S", "O">>
                          [] tok = "{{exif.et}}" -> <<"s">>
                          [] tok = "{{exif.fnum}}" -> <<"f">>
                          [] tok = "{{exif.fl}}" -> <<"m", "m">>
                          [] OTHER -> << >>
            IN  (tok \in ExifTokens /\ Absent(tok, exifData))
                    => out.out = SubSeq(replaceString, 1, k - 1) \o left
                                 \o SubSeq(replaceString, k + 1,
                                           Len(replaceString))

----------------------------------------------------------------------------
\* C15: after SortMatches every file stands before every directory
C15_FilesFirst ==
    pc = "sorted"
        => \A a, b \in 1..Len(matches) :
            (~matches[a].IsDir /\ matches[b].IsDir) => a < b

\* the matches at a and b of ms tie under the rule of SortMatches: two
\* files, or two directories of the same base directory
Tie(ms, a, b) ==
    \/ ~ms[a].IsDir /\ ~ms[b].IsDir
    \/ ms[a].IsDir /\ ms[b].IsDir /\ ms[a].BaseDir = ms[b].BaseDir

\* the position in the sequence ms of the match c
PosIn(ms, c) == CHOOSE k \in 1..Len(ms) : ms[k] = c

\* C16, the sort: matches that tie keep the order they were found in
C16_TiesKeepOrder ==
    pc = "sorted"
        => \A a, b \in 1..Len(matches0) :
            (a < b /\ Tie(matches0, a, b))
                => PosIn(matches, matches0[a]) < PosIn(matches, matches0[b])

\* C16, two directories of one base directory keep their order
C16_DirTiesKeepOrder ==
    pc = "sorted"
        => \A a, b \in 1..Len(matches0) :
            (a < b /\ matches0[a].IsDir /\ matches0[b].IsDir
             /\ matches0[a].BaseDir = matches0[b].BaseDir)
                => PosIn(matches, matches0[a]) < PosIn(matches, matches0[b])

\* C16, no directories included: Run does not sort, and the matches stand
\* in the order FindMatches found them in
C16_UnsortedWithoutDirs ==
    (pc = "replaced" /\ ~includeDir)
        => SourcesOf(matches) = SourcesOf(matches0)

----------------------------------------------------------------------------
\* the loop of Apply is about to handle a match whose target holds a
\* separator, and os.MkdirAll will succeed
AtRenameBelow ==
    /\ pc = "loop"
    /\ i <= Len(matches)
    /\ Len(matches[i].Target) > 1
    /\ MkdirAll(fs, Dir(matches[i].Target)).ok

\* C17: when the loop of Apply renames a match whose target holds a
\* separator, the directory of the full target exists once os.MkdirAll has
\* returned, whatever the base directory
C17_DirsMade ==
    AtRenameBelow
        => LET made == MkdirAll(fs, Dir(matches[i].Target)).fs
               d == Dir(FullTarget(matches[i]))
           IN  d \in DOMAIN made /\ made[d].dir

\* C17 for the matches of the working directory
C17_DirsMadeInWorkingDir ==
    (AtRenameBelow /\ matches[i].BaseDir = Dot)
        => LET made == MkdirAll(fs, Dir(matches[i].Target)).fs
               d == Dir(FullTarget(matches[i]))
           IN  d \in DOMAIN made /\ made[d].dir

----------------------------------------------------------------------------
\* Undo has read the map file and is about to call Apply
UndoSorted == pc = "apply" /\ undoFile

\* C18: in the list Undo hands to Apply every directory of the batch stands
\* before every entry whose base directory lies inside it
C18_ParentsFirst ==
    UndoSorted
        => \A a, b \in 1..Len(matches) :
            (matches[a].IsDir
             /\ IsPrefix(FullTarget(matches[a]), matches[b].BaseDir))
                => a < b

\* C18, the list itself: the logged entries with source and target swapped,
\* in ascending order of the base directory strings, entries of the same
\* base directory in the logged order
C18_SwappedAscending ==
    UndoSorted
        => LET sw == Swapped(log.ops)
           IN  /\ Len(matches) = Len(sw)
               /\ \A k \in 1..Len(sw) : \E j \in 1..Len(matches) :
                    matches[j] = sw[k]
               /\ \A a, b \in 1..Len(matches) :
                    a < b => ~StrLess(PathStr(matches[b].BaseDir),
                                      PathStr(matches[a].BaseDir))
               /\ \A a, b \in 1..Len(sw) :
                    (a < b /\ sw[a].BaseDir = sw[b].BaseDir)
                        => PosIn(matches, sw[a]) < PosIn(matches, sw[b])

----------------------------------------------------------------------------
\* the first loop of DetectConflicts rewrote the target of the match at k
FixedInLoop1(k) ==
    /\ fixConflicts
    /\ ~EmptyTarget(k)
    /\ StatFinds(fs, FullTarget(matches0[k]))

\* the match at j, ahead of k, was recorded in the map with the full target
\* the first loop gave the match at k
RecordedAhead(j, k) ==
    /\ j < k
    /\ ~EmptyTarget(j)
    /\ FullTarget(matches1[j]) = FullTarget(matches1[k])

\* C19 as stated: the target the first loop gives a TargetExists match is
\* neither on the filesystem nor the recorded target of an earlier match
C19_FixAvoidsRecorded ==
    AfterLoop1
        => \A k \in 1..Len(matches0) :
            FixedInLoop1(k)
                => /\ FullTarget(matches1[k]) \notin DOMAIN fs
                   /\ \A j \in 1..Len(matches0) : ~RecordedAhead(j, k)

\* C19 amended: the target the first loop gives a TargetExists match is a
\* new one that is not on the filesystem; it may be the recorded target of
\* an earlier match, and then the second loop reports the two as a
\* FutureOverwrite conflict on that target
C19_FixAvoidsFilesystem ==
    AfterLoop1
        => \A k \in 1..Len(matches0) :
            FixedInLoop1(k)
                => /\ FullTarget(matches1[k]) \notin DOMAIN fs
                   /\ matches1[k].Target # matches0[k].Target
                   /\ \A j \in 1..Len(matches0) :
                        (RecordedAhead(j, k) /\ Detected)
                            => \E c \in Range(conflicts.overwritingNewPath) :
                                /\ c.target = FullTarget(matches1[k])
                                /\ FullSource(matches0[j]) \in Range(c.source)
                                /\ FullSource(matches0[k]) \in Range(c.source)

\* C19 witness: the first loop gave a match a target whose first suffix was
\* taken on the filesystem, and the target is the recorded one of an
\* earlier match
C19_Witness ==
    /\ Detected
    /\ \E k \in 1..Len(matches0) :
        /\ FixedInLoop1(k)
        /\ matches1[k].Target = <<"a (3)">>
        /\ \E j \in 1..Len(matches0) : RecordedAhead(j, k)

----------------------------------------------------------------------------
\* the filesystem at the moment the loop of Apply calls os.Rename for the
\* match at i: the directories of a target with a separator are made
AtRename ==
    IF Len(matches[i].Target) > 1
    THEN MkdirAll(fs, Dir(matches[i].Target))
    ELSE [ok |-> TRUE, fs |-> fs]

\* C20: in execute mode every rename of the loop of Apply whose target is
\* not its source is called with a full target that is not on the
\* filesystem at that moment
C20_RenameOntoFreePath ==
    (pc = "loop" /\ i <= Len(matches) /\ AtRename.ok
     /\ FullTarget(matches[i]) # FullSource(matches[i]))
        => FullTarget(matches[i]) \notin DOMAIN AtRename.fs

\* C20 for the first rename of a forward run: the path conflict detection
\* found free is still free
C20_FirstRenameOntoFreePath ==
    (pc = "loop" /\ i = 1 /\ i <= Len(matches) /\ AtRename.ok /\ ~undoFile
     /\ Len(matches[i].Target) = 1
     /\ FullTarget(matches[i]) # FullSource(matches[i]))
        => FullTarget(matches[i]) \notin DOMAIN AtRename.fs

----------------------------------------------------------------------------
\* the second call of DetectConflicts has gone through both its loops
SecondPassDone == pc = "detected" /\ pass = 2

\* C21: a second call of DetectConflicts with auto-fix, on the matches the
\* first call left and against the same filesystem, reports no conflict and
\* changes no target
C21_SecondPassClean ==
    (SecondPassDone /\ fixConflicts)
        => /\ conflicts = NoConflicts
           /\ matches = matches0

\* C21 for the batches in which the first call left no match with its own
\* source as target: the second call reports nothing and changes nothing
C21_SecondPassCleanButOwnSource ==
    (SecondPassDone /\ fixConflicts
     /\ \A k \in 1..Len(matches0) : matches0[k].Target # matches0[k].Source)
        => /\ conflicts = NoConflicts
           /\ matches = matches0

\* C21, the conflict set: what the second call reports are conflicts of the
\* list it was given, whatever the first call had reported
C21_NoCarryOver ==
    (pass = 2 /\ AfterLoop1)
        => /\ \A c \in Range(conflicts.emptyFilename) :
                \E k \in 1..Len(matches0) :
                    /\ EmptyTarget(k)
                    /\ c.source = <<FullSource(matches0[k])>>
           /\ \A c \in Range(conflicts.fileExists) :
                \E k \in 1..Len(matches0) :
                    /\ StatFinds(fs, FullTarget(matches0[k]))
                    /\ c = Conflict(<<FullSource(matches0[k])>>,
                                    FullTarget(matches0[k]))
           /\ Len(conflicts.emptyFilename)
                = Cardinality({k \in 1..Len(matches0) : EmptyTarget(k)})
           /\ Len(conflicts.fileExists)
                = Cardinality({k \in 1..Len(matches0) : ReportedExists(k)})

====
